---- MODULE Spec2Model ----
(***************************************************************************)
(* Model of the popup controller src/frontend/popup.js.                    *)
(*                                                                         *)
(* The popup is single threaded: every listener and every callback runs to *)
(* completion, so each of them is one atomic action here.  A promise chain *)
(* .then/.catch/.finally of one fetch is one action as well: only          *)
(* microtasks of another settled fetch could run between its links, and    *)
(* their writes commute with it (both re-enable, neither reads what the    *)
(* other writes).                                                          *)
(*                                                                         *)
(* Texts are sequences of tokens: a typed text is a sequence of            *)
(* characters, a fixed message of the code is a one-token sequence.        *)
(***************************************************************************)
EXTENDS Integers, Sequences, FiniteSets, TLC

VARIABLES
    loaded,                \* DOMContentLoaded has run: the listeners exist
    chatHistory,           \* let chatHistory (line 1)
    chatWindow,            \* children of #chat-window, in document order
    askButtonDisabled,     \* askButton.disabled
    questionInputDisabled, \* questionInput.disabled
    processButtonDisabled, \* processButton.disabled
    processButtonLoading,  \* processButton.classList has 'loading'
    quickPromptsDisplay,   \* quickPromptsContainer.style.display
    status,                \* class of the status badge
    dataTheme,             \* data-theme attribute of the document element
    storedTheme,           \* localStorage 'theme'
    themeIcon,             \* text of .theme-icon
    askInFlight,           \* /ask requests sent and not settled
    tabsQueryPending,      \* chrome.tabs.query callbacks not yet run
    executeScriptPending,  \* chrome.scripting.executeScript callbacks not yet run
    processInFlight,       \* /process_* requests sent and not settled
    userActions,           \* Process clicks and sent questions so far
    requestsIssued,        \* fetch calls so far
    lastEvent,             \* the listener or callback that ran last
    lastInput              \* what that listener or callback read from outside

vars == <<loaded, chatHistory, chatWindow, askButtonDisabled,
          questionInputDisabled, processButtonDisabled, processButtonLoading,
          quickPromptsDisplay, status, dataTheme, storedTheme, themeIcon,
          askInFlight, tabsQueryPending, executeScriptPending, processInFlight,
          userActions, requestsIssued, lastEvent, lastInput>>

\* ---------------------------------------------------------------- bounds

\* user actions (Process clicks and sent questions) explored in one popup
MaxActions == 3

\* ------------------------------------------------------------ the inputs

Null == <<"null">>

\* what the user can have typed into #questionInput
TypedTexts == { <<>>, <<" ", " ">>, <<" ", "a", " ">> }

\* data-prompt of a quick-prompt button: missing, empty or a question
Prompts == { Null, <<>>, <<"b">> }

\* the URL of the active tab, in tokens: a PDF, a video, a watch page
\* without v, a watch page with an empty v, a watch URL that ends in .pdf,
\* a page with .pdf inside its URL, any other page
TabUrls ==
    { <<"site/doc", ".pdf">>,
      <<"youtube.com/watch", "?v=", "id">>,
      <<"youtube.com/watch">>,
      <<"youtube.com/watch", "?v=">>,
      <<"youtube.com/watch", "?v=", "id", ".pdf">>,
      <<"site/doc", ".pdf", "#p2">>,
      <<"site/page">> }

\* what the callback of executeScript can be handed: chrome.runtime.lastError
\* set, no results, an empty list of results, the page's HTML
InjectionResults == { <<"lastError">>, <<"undefined">>, <<"empty">>, <<"html">> }

\* nothing was read
NoInput == [ source |-> "none", value |-> <<>> ]

Input(source, value) == [ source |-> source, value |-> value ]

\* ----------------------------------------------------------- operators

RECURSIVE TrimStart(_)
TrimStart(s) ==
    IF s # <<>> /\ Head(s) = " " THEN TrimStart(Tail(s)) ELSE s

RECURSIVE TrimEnd(_)
TrimEnd(s) ==
    IF s # <<>> /\ s[Len(s)] = " " THEN TrimEnd(SubSeq(s, 1, Len(s) - 1)) ELSE s

\* a slip: the value is not trimmed
Trim_none(s) == s

\* String.prototype.trim
Trim(s) == TrimEnd(TrimStart(s))

\* JavaScript truthiness of a string or null
Truthy(s) == s # Null /\ s # <<>>

\* the backend's answer to a question
AnswerTo(question) == <<"answer:">> \o question

\* a slip: includes instead of endsWith
EndsWith_includes(url, suffix) == \E i \in 1..Len(url) : url[i] = suffix

\* pageUrl.endsWith(suffix)
EndsWith(url, suffix) == url # <<>> /\ url[Len(url)] = suffix

\* pageUrl.includes(part)
Includes(url, part) == \E i \in 1..Len(url) : url[i] = part

\* new URLSearchParams(new URL(pageUrl).search).get('v'): null without the
\* parameter, the empty string when it has no value
VideoId(url) ==
    IF ~Includes(url, "?v=") THEN Null
    ELSE LET i == CHOOSE j \in 1..Len(url) : url[j] = "?v="
         IN  IF i < Len(url) THEN <<url[i + 1]>> ELSE <<>>

\* chrome.runtime.lastError || !injectionResults || !injectionResults[0]
InjectionFailed(results) == results \in { <<"lastError">>, <<"undefined">>, <<"empty">> }

ErrorText(message) == <<"Error: ">> \o message

Thinking == <<"Thinking...">>

\* data.answer: the backend answers what it will, the text 'Thinking...'
\* included
Answers(question) == { AnswerTo(question), Thinking }

EmptyState == [ cls |-> "empty-state", html |-> "static", text |-> <<>>, req |-> 0 ]

\* the element addMessageToChat builds; req names the request a thinking
\* indicator stands for (the element the caller keeps a reference to)
MessageDiv(sender, text, req) ==
    [ cls  |-> IF sender = "user" THEN "user-message" ELSE "ai-message",
      html |-> IF sender = "user" THEN "textContent"
               ELSE IF text = Thinking THEN "typing-indicator"
               ELSE "markdown",
      text |-> text,
      req  |-> IF sender # "user" /\ text = Thinking THEN req ELSE 0 ]

addMessageToChat(win, sender, text, req) ==
    Append(SelectSeq(win, LAMBDA e : e.cls # "empty-state"),
           MessageDiv(sender, text, req))

\* thinkingMessage.remove()
RemoveThinking(win, req) ==
    SelectSeq(win, LAMBDA e : ~(e.html = "typing-indicator" /\ e.req = req))

\* a slip: the question is pushed twice
PushHuman_twice(history, question) ==
    Append(Append(history, [ type |-> "human", content |-> question ]),
           [ type |-> "human", content |-> question ])

PushHuman(history, question) ==
    Append(history, [ type |-> "human", content |-> question ])

\* a slip: unshift instead of push
PushAi_front(history, answer) ==
    <<[ type |-> "ai", content |-> answer ]>> \o history

PushAi(history, answer) ==
    Append(history, [ type |-> "ai", content |-> answer ])

\* a slip: the history survives the Process click
ResetHistory_kept(history) == history

\* chatHistory = [] of the Process click
ResetHistory(history) == <<>>

\* a slip: the comparison is inverted
NewTheme_same(currentTheme) ==
    IF currentTheme = <<"light">> THEN <<"light">> ELSE <<"dark">>

NewTheme(currentTheme) == IF currentTheme = <<"light">> THEN <<"dark">> ELSE <<"light">>

SavedTheme(stored) == IF Truthy(stored) THEN stored ELSE <<"light">>

updateThemeIcon(theme) == IF theme = <<"light">> THEN "moon" ELSE "sun"

\* ----------------------------------------------------------------- Init

\* what popup.js itself fixes before DOMContentLoaded.  localStorage holds
\* what an earlier popup stored, or nothing.
InitScript ==
    /\ loaded = FALSE
    /\ chatHistory = <<>>
    /\ chatWindow = <<EmptyState>>
    /\ processButtonDisabled = FALSE
    /\ processButtonLoading = FALSE
    /\ status = "idle"
    /\ dataTheme = Null
    /\ storedTheme \in { Null, <<"light">>, <<"dark">> }
    /\ themeIcon = "moon"
    /\ askInFlight = {}
    /\ tabsQueryPending = 0
    /\ executeScriptPending = 0
    /\ processInFlight = {}
    /\ userActions = 0
    /\ requestsIssued = 0
    /\ lastEvent = "init"
    /\ lastInput = NoInput

\* popup.html is not part of the sources: whether its markup starts with the
\* ask controls disabled and with the quick prompts hidden is left open.
Init ==
    /\ InitScript
    /\ askButtonDisabled \in BOOLEAN
    /\ questionInputDisabled = askButtonDisabled
    /\ quickPromptsDisplay \in { "none", "" }

\* the markup that allows the least: the ask controls start disabled and the
\* quick prompts hidden, as the Process click leaves them, so that nothing
\* can be asked before a page has been processed.  Every behaviour from here
\* is a behaviour of the popup from its first Process click on, whatever the
\* markup.
InitGated ==
    /\ InitScript
    /\ askButtonDisabled = TRUE
    /\ questionInputDisabled = TRUE
    /\ quickPromptsDisplay = "none"

domUnchanged == UNCHANGED <<chatWindow, askButtonDisabled,
                            questionInputDisabled, processButtonDisabled,
                            processButtonLoading, quickPromptsDisplay, status>>

themeUnchanged == UNCHANGED <<dataTheme, storedTheme, themeIcon>>

processUnchanged == UNCHANGED <<tabsQueryPending, executeScriptPending, processInFlight>>

\* --------------------------------------------------------------- actions

DOMContentLoaded ==
    /\ ~loaded
    /\ loaded' = TRUE
    /\ dataTheme' = SavedTheme(storedTheme)
    /\ themeIcon' = updateThemeIcon(SavedTheme(storedTheme))
    /\ lastEvent' = "load"
    /\ lastInput' = NoInput
    /\ domUnchanged /\ processUnchanged
    /\ UNCHANGED <<chatHistory, storedTheme, askInFlight, userActions, requestsIssued>>

ThemeToggleClick ==
    /\ loaded
    /\ dataTheme' = NewTheme(dataTheme)
    /\ storedTheme' = NewTheme(dataTheme)
    /\ themeIcon' = updateThemeIcon(NewTheme(dataTheme))
    /\ lastEvent' = "themeToggle"
    /\ lastInput' = NoInput
    /\ domUnchanged /\ processUnchanged
    /\ UNCHANGED <<loaded, chatHistory, askInFlight, userActions, requestsIssued>>

\* a slip: no .finally
askFinally_kept(disabled) == disabled

\* sendQuestion's .finally: the value it gives askButton.disabled and
\* questionInput.disabled
askFinally(disabled) == FALSE

\* a slip: the body is built before the question is pushed
AskRequest_stale(id, question, history) ==
    [ id |-> id, question |-> question,
      history |-> SubSeq(history, 1, Len(history) - 1) ]

\* the /ask request: JSON.stringify({question, history: chatHistory}) at the
\* call of fetch
AskRequest(id, question, history) ==
    [ id |-> id, question |-> question, history |-> history ]

\* function sendQuestion(question)
sendQuestion(question) ==
    IF ~Truthy(question)
    THEN /\ lastEvent' = "sendNothing"
         /\ domUnchanged /\ themeUnchanged /\ processUnchanged
         /\ UNCHANGED <<loaded, chatHistory, askInFlight, userActions, requestsIssued>>
    ELSE /\ userActions < MaxActions
         /\ chatHistory' = PushHuman(chatHistory, question)
         /\ chatWindow' =
                addMessageToChat(addMessageToChat(chatWindow, "user", question, 0),
                                 "ai", Thinking, requestsIssued + 1)
         /\ askButtonDisabled' = TRUE
         /\ questionInputDisabled' = TRUE
         /\ askInFlight' = askInFlight \cup
                { AskRequest(requestsIssued + 1, question, chatHistory') }
         /\ requestsIssued' = requestsIssued + 1
         /\ userActions' = userActions + 1
         /\ lastEvent' = "send"
         /\ themeUnchanged /\ processUnchanged
         /\ UNCHANGED <<loaded, processButtonDisabled, processButtonLoading,
                        quickPromptsDisplay, status>>

\* askButton click listener; value is the text in the question input (the
\* listener reads it and sendQuestion empties it, nothing else writes it)
AskButtonClick ==
    /\ loaded
    /\ ~askButtonDisabled
    /\ \E value \in TypedTexts :
          /\ lastInput' = Input("typed", value)
          /\ sendQuestion(Trim(value))

\* keypress 'Enter' in the question input
EnterKey ==
    /\ loaded
    /\ ~questionInputDisabled
    /\ ~askButtonDisabled
    /\ \E value \in TypedTexts :
          /\ lastInput' = Input("typed", value)
          /\ sendQuestion(Trim(value))

\* the quick-prompt buttons are never disabled: they can be clicked whenever
\* their container is displayed
QuickPromptClick ==
    /\ loaded
    /\ quickPromptsDisplay # "none"
    /\ \E prompt \in Prompts :
          /\ lastInput' = Input("prompt", prompt)
          /\ sendQuestion(prompt)

\* a slip: the .finally of sendQuestion enables the Process button too
askSettled_enablesProcess(r, text, event) ==
    /\ askInFlight' = askInFlight \ {r}
    /\ chatWindow' = addMessageToChat(RemoveThinking(chatWindow, r.id), "ai", text, 0)
    /\ askButtonDisabled' = FALSE
    /\ questionInputDisabled' = FALSE
    /\ processButtonDisabled' = FALSE
    /\ lastEvent' = event
    /\ themeUnchanged /\ processUnchanged
    /\ UNCHANGED <<loaded, processButtonLoading, quickPromptsDisplay, status,
                   userActions, requestsIssued>>

\* what every settlement of an /ask request shares: the thinking indicator
\* goes, one message is shown, .finally enables the ask controls
askSettled(r, text, event) ==
    /\ askInFlight' = askInFlight \ {r}
    /\ chatWindow' = addMessageToChat(RemoveThinking(chatWindow, r.id), "ai", text, 0)
    /\ askButtonDisabled' = askFinally(askButtonDisabled)
    /\ questionInputDisabled' = askFinally(questionInputDisabled)
    /\ lastEvent' = event
    /\ themeUnchanged /\ processUnchanged
    /\ UNCHANGED <<loaded, processButtonDisabled,
                   processButtonLoading, quickPromptsDisplay, status, userActions,
                   requestsIssued>>

\* .then with data.error unset
AskAnswer ==
    \E r \in askInFlight :
        \E answer \in Answers(r.question) :
            /\ askSettled(r, answer, "askAnswer")
            /\ chatHistory' = PushAi(chatHistory, answer)
            /\ lastInput' = Input("answer", answer)

\* .then with data.error set
AskError ==
    \E r \in askInFlight :
        /\ askSettled(r, ErrorText(<<"backend">>), "askError")
        /\ lastInput' = NoInput
        /\ UNCHANGED chatHistory

\* .catch: fetch rejected, or the response was no JSON
AskFailure ==
    \E r \in askInFlight :
        /\ askSettled(r, ErrorText(<<"Failed to fetch">>), "askFailure")
        /\ lastInput' = NoInput
        /\ UNCHANGED chatHistory

\* processButton click listener, up to the call of chrome.tabs.query
ProcessButtonClick ==
    /\ loaded
    /\ ~processButtonDisabled
    /\ userActions < MaxActions
    /\ status' = "processing"
    /\ processButtonDisabled' = TRUE
    /\ processButtonLoading' = TRUE
    /\ askButtonDisabled' = TRUE
    /\ questionInputDisabled' = TRUE
    /\ quickPromptsDisplay' = "none"
    /\ chatHistory' = ResetHistory(chatHistory)
    /\ chatWindow' = addMessageToChat(<<>>, "ai", <<"Figuring out what to read...">>, 0)
    /\ tabsQueryPending' = tabsQueryPending + 1
    /\ userActions' = userActions + 1
    /\ lastEvent' = "processClick"
    /\ lastInput' = NoInput
    /\ themeUnchanged
    /\ UNCHANGED <<loaded, askInFlight, executeScriptPending,
                   processInFlight, requestsIssued>>

\* a slip: the Process button is forgotten
showError_noButton(win, errorMessage) ==
    /\ status' = "error"
    /\ chatWindow' = addMessageToChat(win, "ai", ErrorText(errorMessage), 0)
    /\ UNCHANGED <<processButtonDisabled, processButtonLoading>>

\* a slip: the badge is updated and the chat message forgotten
showError_noMessage(win, errorMessage) ==
    /\ status' = "error"
    /\ chatWindow' = win
    /\ processButtonDisabled' = FALSE
    /\ processButtonLoading' = FALSE

\* a slip: the badge is left as it is
showError_noBadge(win, errorMessage) ==
    /\ status' = status
    /\ chatWindow' = addMessageToChat(win, "ai", ErrorText(errorMessage), 0)
    /\ processButtonDisabled' = FALSE
    /\ processButtonLoading' = FALSE

\* function showError(errorMessage), on the window win
showError(win, errorMessage) ==
    /\ status' = "error"
    /\ chatWindow' = addMessageToChat(win, "ai", ErrorText(errorMessage), 0)
    /\ processButtonDisabled' = FALSE
    /\ processButtonLoading' = FALSE

\* a slip: the request is sent twice
fetchAndProcess_twice(url) ==
    /\ processInFlight' = processInFlight \cup
           { [ id |-> requestsIssued + 1, url |-> url ],
             [ id |-> requestsIssued + 2, url |-> url ] }
    /\ requestsIssued' = requestsIssued + 2

\* function fetchAndProcess(url, body), up to the call of fetch
fetchAndProcess(url) ==
    /\ processInFlight' = processInFlight \cup
           { [ id |-> requestsIssued + 1, url |-> url ] }
    /\ requestsIssued' = requestsIssued + 1

\* the callback of chrome.tabs.query
TabsQueryCallback ==
    /\ tabsQueryPending > 0
    /\ tabsQueryPending' = tabsQueryPending - 1
    /\ \E pageUrl \in TabUrls :
          /\ lastInput' = Input("url", pageUrl)
          /\ IF EndsWith(pageUrl, ".pdf")
             THEN /\ chatWindow' = addMessageToChat(chatWindow, "ai", <<"Found a PDF!">>, 0)
                  /\ fetchAndProcess("/process_pdf")
                  /\ lastEvent' = "tabPdf"
                  /\ UNCHANGED <<status, processButtonDisabled, processButtonLoading,
                                 executeScriptPending>>
             ELSE IF Includes(pageUrl, "youtube.com/watch")
             THEN IF Truthy(VideoId(pageUrl))
                  THEN /\ chatWindow' = addMessageToChat(chatWindow, "ai",
                                                         <<"Found a YouTube video!">>, 0)
                       /\ fetchAndProcess("/process_youtube")
                       /\ lastEvent' = "tabYoutube"
                       /\ UNCHANGED <<status, processButtonDisabled, processButtonLoading,
                                      executeScriptPending>>
                  ELSE /\ showError(chatWindow, <<"Could not find YouTube video ID">>)
                       /\ lastEvent' = "tabNoVideoId"
                       /\ UNCHANGED <<processInFlight, requestsIssued, executeScriptPending>>
             ELSE /\ chatWindow' = addMessageToChat(chatWindow, "ai",
                                                    <<"Reading the webpage content...">>, 0)
                  /\ executeScriptPending' = executeScriptPending + 1
                  /\ lastEvent' = "tabWebpage"
                  /\ UNCHANGED <<status, processButtonDisabled, processButtonLoading,
                                 processInFlight, requestsIssued>>
    /\ themeUnchanged
    /\ UNCHANGED <<loaded, chatHistory, askButtonDisabled,
                   questionInputDisabled, quickPromptsDisplay, askInFlight, userActions>>

\* the callback of chrome.scripting.executeScript
ExecuteScriptCallback ==
    /\ executeScriptPending > 0
    /\ executeScriptPending' = executeScriptPending - 1
    /\ \E injectionResults \in InjectionResults :
          /\ lastInput' = Input("injection", injectionResults)
          /\ IF InjectionFailed(injectionResults)
             THEN /\ showError(chatWindow, <<"Could not access this page">>)
                  /\ lastEvent' = "injectFailed"
                  /\ UNCHANGED <<processInFlight, requestsIssued>>
             ELSE /\ fetchAndProcess("/process_webpage")
                  /\ lastEvent' = "injected"
                  /\ UNCHANGED <<status, chatWindow, processButtonDisabled,
                                 processButtonLoading>>
    /\ themeUnchanged
    /\ UNCHANGED <<loaded, chatHistory, askButtonDisabled,
                   questionInputDisabled, quickPromptsDisplay, askInFlight,
                   tabsQueryPending, userActions>>

processSettledFrame ==
    /\ themeUnchanged
    /\ UNCHANGED <<loaded, chatHistory, askInFlight,
                   tabsQueryPending, executeScriptPending, userActions, requestsIssued>>

\* fetchAndProcess .then with data.error unset, then .finally
ProcessDone ==
    \E r \in processInFlight :
        /\ processInFlight' = processInFlight \ {r}
        /\ status' = "ready"
        /\ askButtonDisabled' = FALSE
        /\ questionInputDisabled' = FALSE
        /\ quickPromptsDisplay' = "flex"
        /\ chatWindow' = addMessageToChat(<<>>, "ai", <<"I've finished reading.">>, 0)
        /\ processButtonDisabled' = FALSE
        /\ processButtonLoading' = FALSE
        /\ lastEvent' = "processDone"
        /\ lastInput' = NoInput
        /\ processSettledFrame

\* fetchAndProcess .then with data.error set, then .finally
ProcessError ==
    \E r \in processInFlight :
        /\ processInFlight' = processInFlight \ {r}
        /\ showError(chatWindow, <<"backend">>)   \* .finally repeats its last two lines
        /\ lastEvent' = "processError"
        /\ lastInput' = NoInput
        /\ processSettledFrame
        /\ UNCHANGED <<askButtonDisabled, questionInputDisabled, quickPromptsDisplay>>

\* fetchAndProcess .catch, then .finally
ProcessFailure ==
    \E r \in processInFlight :
        /\ processInFlight' = processInFlight \ {r}
        /\ showError(chatWindow, <<"Cannot connect to backend server. ">>)
        /\ lastEvent' = "processFailure"
        /\ lastInput' = NoInput
        /\ processSettledFrame
        /\ UNCHANGED <<askButtonDisabled, questionInputDisabled, quickPromptsDisplay>>

Next ==
    \/ DOMContentLoaded
    \/ ThemeToggleClick
    \/ AskButtonClick
    \/ EnterKey
    \/ QuickPromptClick
    \/ AskAnswer
    \/ AskError
    \/ AskFailure
    \/ ProcessButtonClick
    \/ TabsQueryCallback
    \/ ExecuteScriptCallback
    \/ ProcessDone
    \/ ProcessError
    \/ ProcessFailure

Spec == Init /\ [][Next]_vars

SpecGated == InitGated /\ [][Next]_vars

\* the browser runs every pending callback, and every request settles: the
\* backend answers, reports an error, or the connection fails
Fairness ==
    /\ WF_vars(TabsQueryCallback)
    /\ WF_vars(ExecuteScriptCallback)
    /\ WF_vars(ProcessDone \/ ProcessError \/ ProcessFailure)
    /\ WF_vars(AskAnswer \/ AskError \/ AskFailure)

SpecGatedFair == SpecGated /\ Fairness

TypeOK ==
    /\ loaded \in BOOLEAN
    /\ askButtonDisabled \in BOOLEAN
    /\ questionInputDisabled \in BOOLEAN
    /\ processButtonDisabled \in BOOLEAN
    /\ quickPromptsDisplay \in { "", "none", "flex" }
    /\ status \in { "idle", "processing", "ready", "error" }
    /\ userActions \in 0..MaxActions
    /\ requestsIssued \in 0..MaxActions

\* ------------------------------------------------- vocabulary of the claims

RequestsInFlight == Cardinality(askInFlight) + Cardinality(processInFlight)

\* a Process click whose action has not ended: a callback or a request of
\* it is still pending
ProcessingInProgress ==
    tabsQueryPending > 0 \/ executeScriptPending > 0 \/ processInFlight # {}

AskControlsEnabled == ~askButtonDisabled /\ ~questionInputDisabled

AskControlsDisabled == askButtonDisabled /\ questionInputDisabled

AskSettledEvents == { "askAnswer", "askError", "askFailure" }

AskFailedEvents == { "askError", "askFailure" }

ProcessFailedEvents == { "processError", "processFailure", "tabNoVideoId", "injectFailed" }

ProcessEndedEvents == ProcessFailedEvents \cup { "processDone" }

RequestEvents == { "send", "tabPdf", "tabYoutube", "injected" }

IsErrorMessage(e) ==
    e.cls = "ai-message" /\ e.html = "markdown" /\ e.text # <<>> /\ Head(e.text) = "Error: "

ErrorMessages(win) == Len(SelectSeq(win, IsErrorMessage))

IsPrefix(s, t) == Len(s) <= Len(t) /\ SubSeq(t, 1, Len(s)) = s

Themes == { <<"light">>, <<"dark">> }

\* ----------------------------------------------------------------- C1
\* C1: at most one network request (/ask or /process_*) is in flight at any
\* time.
C1_OneRequestInFlight == RequestsInFlight <= 1

\* ----------------------------------------------------------------- C2
\* C2: while a page-processing action is in progress the Ask button and the
\* question input are disabled.
C2_AskDisabledWhileProcessing == ProcessingInProgress => AskControlsDisabled

\* ----------------------------------------------------------------- C3
\* C3: a sent question disables the Ask button and the question input; the
\* settlement of its /ask request (answer, backend error, network failure)
\* enables both; and when no /ask request is outstanding and no processing is
\* in progress, a history holding a sent question goes with enabled ask
\* controls.
C3_AskControlsRestored ==
    /\ lastEvent = "send" => AskControlsDisabled
    /\ lastEvent \in AskSettledEvents => AskControlsEnabled
    /\ (askInFlight = {} /\ ~ProcessingInProgress /\ chatHistory # <<>>)
          => AskControlsEnabled

C3_Witness ==
    /\ lastEvent = "askFailure"
    /\ askInFlight = {}
    /\ ~ProcessingInProgress
    /\ chatHistory # <<>>
    /\ AskControlsEnabled

\* ----------------------------------------------------------------- C4
\* C4 as stated: when a processing action ends, by success or by any
\* failure, the Process button, the Ask button and the question input are
\* enabled.
C4_AllControlsReenabled ==
    lastEvent \in ProcessEndedEvents =>
        ~processButtonDisabled /\ AskControlsEnabled

\* C4 amended: the end of a processing action enables the Process button in
\* every case; it enables the Ask button and the question input when the
\* processing succeeded, and leaves them as they were when it failed.
C4_ProcessButtonReenabled ==
    [][ /\ lastEvent' \in ProcessEndedEvents => ~processButtonDisabled'
        /\ lastEvent' = "processDone" => AskControlsEnabled'
        /\ lastEvent' \in ProcessFailedEvents =>
              UNCHANGED <<askButtonDisabled, questionInputDisabled>> ]_vars

C4_Witness ==
    /\ lastEvent = "tabNoVideoId"
    /\ ~processButtonDisabled
    /\ AskControlsDisabled
    /\ ~ProcessingInProgress

\* ----------------------------------------------------------------- C5
\* C5: sending a question appends exactly one human record holding it, the
\* answer to its /ask request appends exactly one ai record holding the
\* answer, and neither step appends anything else.
C5_OneHumanOneAi ==
    [][ /\ lastEvent' = "send" =>
              \E r \in askInFlight' \ askInFlight :
                  chatHistory' = chatHistory \o
                      << [ type |-> "human", content |-> r.question ] >>
        /\ lastEvent' = "askAnswer" =>
              \E r \in askInFlight \ askInFlight' :
                  /\ lastInput'.value \in Answers(r.question)
                  /\ chatHistory' = chatHistory \o
                         << [ type |-> "ai", content |-> lastInput'.value ] >> ]_vars

C5_Witness ==
    /\ lastEvent = "askAnswer"
    /\ chatHistory = << [ type |-> "human", content |-> <<"a">> ],
                        [ type |-> "ai", content |-> AnswerTo(<<"a">>) ] >>

\* ----------------------------------------------------------------- C6
\* C6: in the state right after a Process click the chat history is empty.
C6_ProcessClearsHistory == lastEvent = "processClick" => chatHistory = <<>>

\* the click came after a question was sent (one send, one click so far), so
\* it had a non-empty history to clear
C6_Witness ==
    /\ lastEvent = "processClick"
    /\ userActions = 2
    /\ requestsIssued = 1
    /\ chatHistory = <<>>

\* ----------------------------------------------------------------- C7
\* C7 as stated: every failure, of an /ask request as of a processing
\* action, adds exactly one error message to the chat and puts the status
\* badge in the error state.
C7_ErrorMessageAndBadge ==
    [][ lastEvent' \in AskFailedEvents \cup ProcessFailedEvents =>
            /\ ErrorMessages(chatWindow') = ErrorMessages(chatWindow) + 1
            /\ status' = "error" ]_vars

\* C7 amended: every failure adds exactly one error message to the chat; a
\* failure of a processing action puts the status badge in the error state,
\* a failure of an /ask request leaves the badge as it was.
C7_ErrorMessageBadgeOnProcessing ==
    [][ /\ lastEvent' \in AskFailedEvents \cup ProcessFailedEvents =>
              ErrorMessages(chatWindow') = ErrorMessages(chatWindow) + 1
        /\ lastEvent' \in ProcessFailedEvents => status' = "error"
        /\ lastEvent' \in AskFailedEvents => status' = status ]_vars

C7_Witness ==
    /\ lastEvent = "askError"
    /\ status = "ready"
    /\ ErrorMessages(chatWindow) = 1

\* ----------------------------------------------------------------- C8
\* C8: each user action (a Process click, a sent question) issues at most
\* one request, and only the steps of a user action issue one: no
\* settlement, failed or not, issues a request.
C8_NoRetry ==
    /\ [](requestsIssued + tabsQueryPending + executeScriptPending <= userActions)
    /\ [][ requestsIssued' # requestsIssued =>
              /\ requestsIssued' = requestsIssued + 1
              /\ lastEvent' \in RequestEvents ]_vars

C8_Witness ==
    /\ lastEvent = "processFailure"
    /\ requestsIssued = 1
    /\ userActions = 1
    /\ RequestsInFlight = 0

\* ----------------------------------------------------------------- C9
\* C9: but for a Process click, every step leaves the chat history a prefix
\* of its next value: records are appended, never changed, moved or removed.
C9_HistoryAppendOnly ==
    [][ lastEvent' # "processClick" => IsPrefix(chatHistory, chatHistory') ]_vars

C9_Witness ==
    /\ lastEvent = "askAnswer"
    /\ Len(chatHistory) = 3
    /\ chatHistory[3].type = "ai"

\* ----------------------------------------------------------------- C10
\* C10: once the popup has started the applied theme is "light" or "dark";
\* startup applies the persisted value, or light when there is none; a
\* toggle flips the applied theme and persists the new value.
C10_Theme ==
    /\ [](loaded => dataTheme \in Themes)
    /\ [](lastEvent = "load" =>
              dataTheme = IF storedTheme = Null THEN <<"light">> ELSE storedTheme)
    /\ [][ lastEvent' = "themeToggle" =>
              /\ dataTheme' \in Themes \ { dataTheme }
              /\ storedTheme' = dataTheme' ]_vars

C10_Witness ==
    /\ lastEvent = "themeToggle"
    /\ dataTheme = <<"dark">>
    /\ storedTheme = <<"dark">>
    /\ themeIcon = "sun"

\* ----------------------------------------------------------------- C11
HasVParameter(url) == \E i \in 1..Len(url) : url[i] = "?v="

HasVideoIdValue(url) == \E i \in 1..(Len(url) - 1) : url[i] = "?v="

NewProcessRequests == processInFlight' \ processInFlight

SendsOnlyTo(endpoint) ==
    /\ Cardinality(NewProcessRequests) = 1
    /\ \A r \in NewProcessRequests : r.url = endpoint
    /\ requestsIssued' = requestsIssued + 1

SendsNothingAndReports ==
    /\ NewProcessRequests = {}
    /\ requestsIssued' = requestsIssued
    /\ status' = "error"
    /\ ErrorMessages(chatWindow') = ErrorMessages(chatWindow) + 1

\* the dispatch of the two callbacks of a Process click; test names what
\* sends a watch page to /process_youtube: a v parameter, or a v parameter
\* with a value
Dispatch(test) ==
    /\ lastInput'.source = "url" =>
          LET url == lastInput'.value
          IN  IF url[Len(url)] = ".pdf"
              THEN SendsOnlyTo("/process_pdf")
              ELSE IF \E i \in 1..Len(url) : url[i] = "youtube.com/watch"
              THEN IF (IF test = "parameter" THEN HasVParameter(url)
                                              ELSE HasVideoIdValue(url))
                   THEN SendsOnlyTo("/process_youtube")
                   ELSE SendsNothingAndReports
              ELSE /\ NewProcessRequests = {}
                   /\ requestsIssued' = requestsIssued
                   /\ executeScriptPending' = executeScriptPending + 1
    /\ lastInput'.source = "injection" =>
          IF lastInput'.value = <<"html">>
          THEN SendsOnlyTo("/process_webpage")
          ELSE SendsNothingAndReports

\* C11 as stated: a Process click sends at most one request, chosen by the
\* tab's URL: /process_pdf for a URL ending in .pdf; otherwise, for a
\* youtube.com/watch URL, /process_youtube when it has a v parameter and an
\* error without a request when it has none; otherwise /process_webpage when
\* the page could be read and an error without a request when it could not.
C11_EndpointByUrl == [][ Dispatch("parameter") ]_vars

\* C11 amended: the same, with /process_youtube for a watch URL whose v
\* parameter has a non-empty value, and the error without a request for a
\* watch URL whose v parameter is missing or empty.
C11_EndpointByUrlNonEmptyV == [][ Dispatch("value") ]_vars

C11_Witness ==
    /\ lastEvent = "tabNoVideoId"
    /\ lastInput = Input("url", <<"youtube.com/watch", "?v=">>)
    /\ processInFlight = {}
    /\ status = "error"

\* ----------------------------------------------------------------- C12
\* C12: at most one page-processing action is in progress (one pending
\* callback or one /process_* request in flight, never two), and the Process
\* button is disabled for as long as it is.
C12_OneProcessingAction ==
    /\ tabsQueryPending + executeScriptPending + Cardinality(processInFlight) <= 1
    /\ ProcessingInProgress => processButtonDisabled

\* a processing action that an /ask request ran into and settled under
C12_Witness ==
    /\ lastEvent \in AskSettledEvents
    /\ processInFlight # {}
    /\ processButtonDisabled

\* ----------------------------------------------------------------- C13
\* C13: under fairness of the pending callbacks and of the settlement of
\* requests, a processing action in progress leads to a state in which none
\* is, the status badge is ready or error and the Process button is enabled.
C13_ProcessingEnds ==
    ProcessingInProgress ~>
        ( /\ ~ProcessingInProgress
          /\ status \in { "ready", "error" }
          /\ ~processButtonDisabled )

C13_Witness ==
    /\ lastEvent = "injectFailed"
    /\ ~ProcessingInProgress
    /\ status = "error"
    /\ ~processButtonDisabled

\* ----------------------------------------------------------------- C14
\* C14: when an /ask request fails (error field or network failure), the
\* chat history is then the history its question was sent with: the history
\* before the question plus the question's human record, and no ai record.
C14_FailedAskKeepsHuman ==
    [][ lastEvent' \in AskFailedEvents =>
            \E r \in askInFlight \ askInFlight' : chatHistory' = r.history ]_vars

\* ----------------------------------------------------------------- C15
\* C15: the history an /ask request carries is the chat history at the
\* send, which is the history before the send plus the human record of the
\* question asked, as its last record.
C15_RequestCarriesHistory ==
    [][ lastEvent' = "send" =>
            \E r \in askInFlight' \ askInFlight :
                /\ r.history = chatHistory'
                /\ r.history = chatHistory \o
                       << [ type |-> "human", content |-> r.question ] >> ]_vars

\* a question sent on top of an earlier question and its answer
C15_Witness ==
    /\ lastEvent = "send"
    /\ \E r \in askInFlight :
          /\ Len(r.history) = 3
          /\ r.history[2].type = "ai"
          /\ r.history = chatHistory

\* ----------------------------------------------------------------- C16
WellFormedDialogue(history) ==
    \A i \in 1..Len(history) :
        IF i % 2 = 1
        THEN history[i].type = "human"
        ELSE /\ history[i].type = "ai"
             /\ history[i - 1].type = "human"
             /\ history[i].content \in Answers(history[i - 1].content)

\* C16: the chat history is always a well-formed dialogue: human and ai
\* records alternate from a human record on, and every ai record holds the
\* answer to the human record before it.
C16_WellFormedDialogue == WellFormedDialogue(chatHistory)

\* ----------------------------------------------------------------- C17
ThinkingIndicators(win) ==
    Len(SelectSeq(win, LAMBDA e : e.html = "typing-indicator"))

\* C17: the chat window never shows more thinking indicators than there are
\* /ask requests in flight, and so none when none is in flight.
C17_IndicatorHasRequest == ThinkingIndicators(chatWindow) <= Cardinality(askInFlight)

\* ----------------------------------------------------------------- C18
IsBlank(text) == \A i \in 1..Len(text) : text[i] = " "

EmptyQuestion(input) ==
    \/ input.source = "typed" /\ IsBlank(input.value)
    \/ input.source = "prompt" /\ input.value \in { Null, <<>> }

\* C18: an Ask click or Enter on an empty or blank input, and a quick-prompt
\* click on an empty or missing prompt, change neither the chat history, nor
\* the chat window, nor any control, nor the status badge, nor the requests
\* in flight.
C18_EmptyQuestionNoOp ==
    [][ EmptyQuestion(lastInput') =>
            UNCHANGED <<loaded, chatHistory, chatWindow, askButtonDisabled,
                        questionInputDisabled, processButtonDisabled,
                        processButtonLoading, quickPromptsDisplay, status,
                        dataTheme, storedTheme, themeIcon, askInFlight,
                        tabsQueryPending, executeScriptPending, processInFlight,
                        userActions, requestsIssued>> ]_vars

\* a blank input sent while a question is outstanding in a non-empty chat
C18_Witness ==
    /\ lastEvent = "sendNothing"
    /\ lastInput = Input("typed", <<" ", " ">>)
    /\ chatHistory # <<>>
    /\ ThinkingIndicators(chatWindow) = 1

====
